---- MODULE Spec2Model ----
(***************************************************************************)
(* A model of thread-scoped (src/src/lib.rs): `scoped` spawns a closure on *)
(* a new thread and returns a JoinGuard; the guard is ended by join(), by  *)
(* its destructor (Drop), by detach() for 'static guards, or is leaked     *)
(* with mem::forget.  One spawning ("caller") thread and up to MaxGuards   *)
(* background threads are modelled, together with the data each closure    *)
(* borrows from the caller.                                                *)
(***************************************************************************)
EXTENDS Integers, Sequences, FiniteSets, TLC

\* Number of scoped() calls the caller makes.
MaxGuards == 1
\* Closures return (and write) values in 1..MaxVal.
MaxVal == 2
\* `let mut a = 5;` the borrowed variable before the closure touches it.
InitVal == 5

Guards == 1..MaxGuards
Values == 1..MaxVal

VARIABLES
  gstate,     \* per guard: the life of the JoinGuard value
  closure,    \* per guard: the closure handed to scoped()
  inner,      \* per guard: JoinGuard.inner, an Option<JoinHandle> (<<>> or <<id>>)
  tstate,     \* per guard: the state of the spawned thread
  touched,    \* per guard: the closure has accessed the data it borrows
  box,        \* per guard: the heap allocation (Box<F>) holding the closure
  joins,      \* per guard: how many times its JoinHandle has been joined
  data,       \* per guard: the caller's variable the closure borrows
  freed,      \* per guard: the caller has freed that variable
  uaf,        \* per guard: the closure accessed the variable after it was freed
  seen,       \* per guard: what the caller read from the variable (<<>> or <<v>>)
  ret,        \* per guard: what join() returned to the caller (<<>> or <<v>>)
  acc,        \* what thread() last returned to the caller (<<>> or <<id>>)
  pc,         \* the caller: "run", blocked in "join" or "drop", or "aborted"
  op,         \* the caller: the guard operation it is inside
  cur,        \* the caller: the guard whose thread it waits for
  panicking,  \* the caller is unwinding
  panicMsg,   \* the payload of the caller's last panic
  blamed      \* the threads whose panic join() or drop() raised in the caller

vars == <<gstate, closure, inner, tstate, touched, box, joins, data, freed, uaf,
          seen, ret, acc, pc, op, cur, panicking, panicMsg, blamed>>

gvars == <<gstate, closure, inner>>
tvars == <<tstate, touched, box>>
dvars == <<data, freed, uaf, seen>>
cvars == <<pc, op, cur, panicking, panicMsg>>

\* The closures a caller may pass: F: FnOnce() -> T, F: Send + 'a.  A closure
\* owns everything it uses ("owned", so F: 'static), or borrows the caller's
\* variable shared ("shared", it reads it) or mutably ("mut", it writes wr,
\* the value it also returns).
Closures ==
  [kind : {"owned", "shared"}, ret : Values, wr : {<<>>}]
    \cup {[kind |-> "mut", ret |-> v, wr |-> <<v>>] : v \in Values}

NoClosure == [kind |-> "none", ret |-> 0, wr |-> <<>>]

\* The lifetime 'a of JoinGuard<'a, T> that scoped() can return for a closure:
\* F: 'a allows 'static only when the closure borrows nothing.
Lifetime(c) == IF c.kind = "owned" THEN "static" ELSE "scoped"

Terminated == {"finished", "panicked"}

NoPanic == [text |-> "none", thread |-> 0]
UnwrapNone == [text |-> "called Option::unwrap() on a None value", thread |-> 0]
SpawnFailed == [text |-> "failed to spawn thread", thread |-> 0]
CallerPanicked == [text |-> "caller", thread |-> 0]

Init ==
  /\ gstate = [g \in Guards |-> "unborn"]
  /\ closure = [g \in Guards |-> NoClosure]
  /\ inner = [g \in Guards |-> <<>>]
  /\ tstate = [g \in Guards |-> "none"]
  /\ touched = [g \in Guards |-> FALSE]
  /\ box = [g \in Guards |-> "none"]
  /\ joins = [g \in Guards |-> 0]
  /\ data = [g \in Guards |-> InitVal]
  /\ freed = [g \in Guards |-> FALSE]
  /\ uaf = [g \in Guards |-> FALSE]
  /\ seen = [g \in Guards |-> <<>>]
  /\ ret = [g \in Guards |-> <<>>]
  /\ acc = <<>>
  /\ pc = "run"
  /\ op = "none"
  /\ cur = 0
  /\ panicking = FALSE
  /\ panicMsg = NoPanic
  /\ blamed = {}

\* Mutant of take: the value is copied out and self.inner keeps it.
takeCopy(opt) == [taken |-> opt, left |-> opt]

\* Option::take(): the value moves out and None is left behind.
take(opt) == [taken |-> opt, left |-> <<>>]

\* Mutant of thread: a cleared handle yields some default Thread, no panic.
threadDefault(opt) ==
  IF opt = <<>> THEN [ok |-> TRUE, thread |-> 0]
                ELSE [ok |-> TRUE, thread |-> opt[1]]

\* JoinGuard::thread(): self.inner.as_ref().unwrap().thread(); unwrap() panics
\* on None, otherwise the Thread of the handle is returned.
thread(opt) ==
  IF opt = <<>> THEN [ok |-> FALSE, thread |-> 0]
                ELSE [ok |-> TRUE, thread |-> opt[1]]

\* panic!("child thread {:?} panicked", self.thread()): the argument is
\* evaluated first, so a panic inside self.thread() is the panic raised.
ChildPanic(opt) ==
  LET t == thread(opt)
  IN IF t.ok THEN [text |-> "child thread panicked", thread |-> t.thread]
             ELSE UnwrapNone

\* Mutant of JoinReady: the wait returns whatever the thread is doing.
JoinReadyNoWait(ts) == TRUE

\* Mutant of JoinReady: the wait ends as soon as the thread has started.
JoinReadyStarted(ts) == ts # "spawned"

\* Mutant of JoinReady: the wait never ends.
JoinReadyNever(ts) == FALSE

\* JoinHandle::join() blocks until the thread has terminated ...
JoinReady(ts) == ts \in Terminated

\* ... and yields Ok(the closure's value), or Err when the thread panicked.
HandleJoin(ts, c) ==
  IF ts = "finished" THEN [ok |-> TRUE, val |-> c.ret]
                     ELSE [ok |-> FALSE, val |-> 0]

\* Mutant of JoinMatch: Ok(_) yields a value of the caller's, not the thread's.
JoinMatchStale(r, opt) ==
  IF r.ok THEN [panic |-> FALSE, val |-> <<InitVal>>, msg |-> NoPanic]
          ELSE [panic |-> TRUE, val |-> <<>>, msg |-> ChildPanic(opt)]

\* Mutant of JoinMatch: Err(_) is swallowed and join() returns.
JoinMatchSwallow(r, opt) ==
  IF r.ok THEN [panic |-> FALSE, val |-> <<r.val>>, msg |-> NoPanic]
          ELSE [panic |-> FALSE, val |-> <<>>, msg |-> NoPanic]

\* join(): match ... { Ok(res) => res, Err(_) => panic!(.., self.thread()) }
JoinMatch(r, opt) ==
  IF r.ok THEN [panic |-> FALSE, val |-> <<r.val>>, msg |-> NoPanic]
          ELSE [panic |-> TRUE, val |-> <<>>, msg |-> ChildPanic(opt)]

\* Mutant of DropMatch: the result of the join is ignored.
DropMatchIgnore(r, opt) == [panic |-> FALSE, msg |-> NoPanic]

\* drop(): if v.join().is_err() { panic!(.., self.thread()) }
DropMatch(r, opt) ==
  IF r.ok THEN [panic |-> FALSE, msg |-> NoPanic]
          ELSE [panic |-> TRUE, msg |-> ChildPanic(opt)]

\* Mutant of DetachTake: the handle stays in self.inner.
DetachKeep(opt) == opt

\* detach(): let _ = self.inner.take();  what is left in self.inner.
DetachTake(opt) == take(opt).left

\* Mutant of DetachImpl: impl<'a, T> ScopedDetach for JoinGuard<'a, T>.
DetachImplAny(lt) == TRUE

\* impl<T: Send + 'static> ScopedDetach for JoinGuard<'static, T>
DetachImpl(lt) == lt = "static"

\* How the guard's life ended, by the operation that destroyed it.
EndedBy(o) ==
  CASE o = "join" -> "joined"
    [] o = "detach" -> "detached"
    [] OTHER -> "dropped"

\* Mutant of Borrowed: the guard's type does not carry the closure's lifetime.
BorrowedNever(gs) == FALSE

\* JoinGuard<'a, T> with F: 'a: the closure's borrows last while the guard
\* value exists (it is alive until join, detach, drop or forget consumes it).
Borrowed(gs) == gs = "alive"

\* The borrow rules for the caller's variable: it exists once the closure that
\* borrows it was passed to scoped(); while borrowed mutably it cannot be used,
\* while borrowed shared it can only be read.
CanRead(k, gs) ==
  k \in {"shared", "mut"} /\ gs # "unborn" /\ (Borrowed(gs) => k = "shared")

CanWrite(k, gs) ==
  k \in {"shared", "mut"} /\ gs # "unborn" /\ ~Borrowed(gs)

\* Mutant of DropGuard: the destructor drops the handle without joining it.
DropGuardNoJoin(g, opt, o, pan, msg) ==
  /\ inner' = [inner EXCEPT ![g] = <<>>]
  /\ panicking' = pan
  /\ panicMsg' = msg
  /\ gstate' = [gstate EXCEPT ![g] = EndedBy(o)]
  /\ pc' = "run"
  /\ op' = "none"
  /\ cur' = 0

\* Drop::drop(&mut self) entered for guard g whose inner is opt, inside
\* operation o, with the caller's panic state (pan, msg):
\* self.inner.take().map(|v| v.join() ..) waits only if a handle was present.
DropGuard(g, opt, o, pan, msg) ==
  LET t == take(opt)
  IN /\ inner' = [inner EXCEPT ![g] = t.left]
     /\ panicking' = pan
     /\ panicMsg' = msg
     /\ IF t.taken = <<>>
          THEN /\ gstate' = [gstate EXCEPT ![g] = EndedBy(o)]
               /\ pc' = "run"
               /\ op' = "none"
               /\ cur' = 0
          ELSE /\ gstate' = gstate
               /\ pc' = "drop"
               /\ op' = o
               /\ cur' = g

\* Mutant of BoxForgotten: without forget(b) the box is dropped, and the
\* closure freed, when scoped() returns.
BoxDropped == "dropped"

\* let mut b = Box::new(f); .. forget(b): when scoped() hands the closure to
\* the thread only the raw pointer b_ptr refers to the allocation.
BoxForgotten == "raw"

\* Mutant of SpawnResult: the error of the OS is dropped and scoped() returns.
SpawnResultSwallow(ok, g) ==
  IF ok THEN [gs |-> "alive", inner |-> <<g>>, ts |-> "spawned", panic |-> FALSE]
        ELSE [gs |-> "nospawn", inner |-> <<>>, ts |-> "none", panic |-> FALSE]

\* Mutant of SpawnResult: the closure has run to its end when scoped() returns.
SpawnResultSync(ok, g) ==
  IF ok THEN [gs |-> "alive", inner |-> <<g>>, ts |-> "finished", panic |-> FALSE]
        ELSE [gs |-> "nospawn", inner |-> <<>>, ts |-> "none", panic |-> TRUE]

\* inner: Some(spawn(move || ..)): std::thread::spawn returns the handle of
\* a thread that is yet to run, or panics when the OS cannot create the thread;
\* scoped() neither catches that panic nor calls spawn again.
SpawnResult(ok, g) ==
  IF ok THEN [gs |-> "alive", inner |-> <<g>>, ts |-> "spawned", panic |-> FALSE]
        ELSE [gs |-> "nospawn", inner |-> <<>>, ts |-> "none", panic |-> TRUE]

FirstUnborn == CHOOSE g \in Guards :
  gstate[g] = "unborn" /\ \A h \in Guards : gstate[h] = "unborn" => g <= h

\* scoped(f): box the closure, erase its lifetime, spawn a thread that runs it
\* and return the guard; std::thread::spawn panics when the OS cannot create
\* the thread (the forgotten box is then never run).
Scoped(c, ok) ==
  /\ pc = "run" /\ ~panicking
  /\ \E g \in Guards : gstate[g] = "unborn"
  /\ LET g == FirstUnborn
         r == SpawnResult(ok, g)
     IN /\ closure' = [closure EXCEPT ![g] = c]
        /\ gstate' = [gstate EXCEPT ![g] = r.gs]
        /\ inner' = [inner EXCEPT ![g] = r.inner]
        /\ tstate' = [tstate EXCEPT ![g] = r.ts]
        /\ box' = [box EXCEPT ![g] = BoxForgotten]
        /\ panicking' = r.panic
        /\ panicMsg' = IF r.panic THEN SpawnFailed ELSE panicMsg
  /\ UNCHANGED <<touched, joins, dvars, ret, acc, pc, op, cur, blamed>>

\* Mutant of JoinCall: join() waits on the handle but leaves it in self.inner.
JoinCallKeep(g) ==
  /\ pc = "run" /\ ~panicking
  /\ gstate[g] = "alive"
  /\ inner[g] # <<>>
  /\ pc' = "join"
  /\ op' = "join"
  /\ cur' = g
  /\ UNCHANGED <<gvars, tvars, joins, dvars, ret, acc, panicking, panicMsg, blamed>>

\* join(mut self): self.inner.take().unwrap() and the wait on the handle begins.
JoinCall(g) ==
  /\ pc = "run" /\ ~panicking
  /\ gstate[g] = "alive"
  /\ LET t == take(inner[g])
     IN IF t.taken = <<>>
          THEN DropGuard(g, t.left, "join", TRUE, UnwrapNone)
          ELSE /\ inner' = [inner EXCEPT ![g] = t.left]
               /\ pc' = "join"
               /\ op' = "join"
               /\ cur' = g
               /\ UNCHANGED <<gstate, panicking, panicMsg>>
  /\ UNCHANGED <<closure, tvars, joins, dvars, ret, acc, blamed>>

\* join(): the handle's join() returns; the match yields the value or panics,
\* and self is dropped on return or while unwinding.
JoinWake ==
  /\ pc = "join"
  /\ JoinReady(tstate[cur])
  /\ joins' = [joins EXCEPT ![cur] = @ + 1]
  /\ LET m == JoinMatch(HandleJoin(tstate[cur], closure[cur]), inner[cur])
     IN /\ ret' = [ret EXCEPT ![cur] = m.val]
        /\ blamed' = IF m.panic THEN blamed \cup {cur} ELSE blamed
        /\ IF m.panic
             THEN DropGuard(cur, inner[cur], "join", TRUE, m.msg)
             ELSE DropGuard(cur, inner[cur], "join", panicking, panicMsg)
  /\ UNCHANGED <<closure, tvars, dvars, acc>>

\* The guard goes out of scope (end of scope, drop(guard), `let _ =`, or the
\* caller's unwinding): Drop::drop runs.
ScopeEnd(g) ==
  /\ pc = "run"
  /\ gstate[g] = "alive"
  /\ DropGuard(g, inner[g], "drop", panicking, panicMsg)
  /\ UNCHANGED <<closure, tvars, joins, dvars, ret, acc, blamed>>

\* drop(): the handle's join() returns; an Err panics, and a panic while the
\* caller is already unwinding aborts the process.
DropWake ==
  /\ pc = "drop"
  /\ JoinReady(tstate[cur])
  /\ joins' = [joins EXCEPT ![cur] = @ + 1]
  /\ gstate' = [gstate EXCEPT ![cur] = EndedBy(op)]
  /\ LET m == DropMatch(HandleJoin(tstate[cur], closure[cur]), inner[cur])
     IN /\ blamed' = IF m.panic THEN blamed \cup {cur} ELSE blamed
        /\ IF m.panic
          THEN /\ pc' = IF panicking THEN "aborted" ELSE "run"
               /\ panicking' = TRUE
               /\ panicMsg' = m.msg
          ELSE /\ pc' = "run"
               /\ UNCHANGED <<panicking, panicMsg>>
  /\ op' = "none"
  /\ cur' = 0
  /\ UNCHANGED <<closure, inner, tvars, dvars, ret, acc>>

\* detach(mut self): the handle is taken and dropped, then self is dropped.
Detach(g) ==
  /\ pc = "run" /\ ~panicking
  /\ gstate[g] = "alive"
  /\ DetachImpl(Lifetime(closure[g]))
  /\ DropGuard(g, DetachTake(inner[g]), "detach", panicking, panicMsg)
  /\ UNCHANGED <<closure, tvars, joins, dvars, ret, acc, blamed>>

\* mem::forget(guard): the guard is consumed and its destructor never runs.
Leak(g) ==
  /\ pc = "run" /\ ~panicking
  /\ gstate[g] = "alive"
  /\ gstate' = [gstate EXCEPT ![g] = "leaked"]
  /\ UNCHANGED <<closure, inner, tvars, joins, dvars, ret, acc, cvars, blamed>>

\* guard.thread() called by the caller.
CallThread(g) ==
  /\ pc = "run" /\ ~panicking
  /\ gstate[g] = "alive"
  /\ LET t == thread(inner[g])
     IN IF t.ok
          THEN /\ acc' = <<t.thread>>
               /\ UNCHANGED <<panicking, panicMsg>>
          ELSE /\ acc' = acc
               /\ panicking' = TRUE
               /\ panicMsg' = UnwrapNone
  /\ UNCHANGED <<gvars, tvars, joins, dvars, ret, pc, op, cur, blamed>>

\* The caller's own code panics while it holds a guard: unwinding begins.
CallerPanic ==
  /\ pc = "run" /\ ~panicking
  /\ \E g \in Guards : gstate[g] = "alive"
  /\ panicking' = TRUE
  /\ panicMsg' = CallerPanicked
  /\ UNCHANGED <<gvars, tvars, joins, dvars, ret, acc, pc, op, cur, blamed>>

\* The caller reads its variable, as in assert_eq!(a, 2).
CallerRead(g) ==
  /\ pc = "run" /\ ~panicking
  /\ CanRead(closure[g].kind, gstate[g])
  /\ ~freed[g]
  /\ seen[g] = <<>>
  /\ seen' = [seen EXCEPT ![g] = <<data[g]>>]
  /\ UNCHANGED <<gvars, tvars, joins, data, freed, uaf, ret, acc, cvars, blamed>>

\* The caller's variable goes out of scope (also while unwinding).
CallerFree(g) ==
  /\ pc = "run"
  /\ CanWrite(closure[g].kind, gstate[g])
  /\ ~freed[g]
  /\ freed' = [freed EXCEPT ![g] = TRUE]
  /\ UNCHANGED <<gvars, tvars, joins, data, uaf, seen, ret, acc, cvars, blamed>>

\* The spawned thread starts: it recovers the Box<F> from the raw pointer and
\* calls the closure, which consumes the box.
ThreadStart(g) ==
  /\ pc # "aborted"
  /\ tstate[g] = "spawned"
  /\ tstate' = [tstate EXCEPT ![g] = "running"]
  /\ box' = [box EXCEPT ![g] = IF @ = "raw" THEN "called" ELSE @]
  /\ UNCHANGED <<gvars, touched, joins, dvars, ret, acc, cvars, blamed>>

\* The closure uses the variable it borrows: a "mut" closure writes it, a
\* "shared" one reads it; after the caller freed it the access is a
\* use after free, undefined behaviour: the memory may then hold anything.
ThreadTouch(g) ==
  /\ pc # "aborted"
  /\ tstate[g] = "running"
  /\ closure[g].kind \in {"shared", "mut"}
  /\ ~touched[g]
  /\ touched' = [touched EXCEPT ![g] = TRUE]
  /\ uaf' = [uaf EXCEPT ![g] = freed[g]]
  /\ IF freed[g]
       THEN \E v \in Values \cup {InitVal} : data' = [data EXCEPT ![g] = v]
       ELSE data' = IF closure[g].kind = "mut"
                      THEN [data EXCEPT ![g] = closure[g].wr[1]]
                      ELSE data
  /\ UNCHANGED <<gvars, tstate, box, joins, freed, seen, ret, acc, cvars, blamed>>

\* The closure returns its value.
ThreadFinish(g) ==
  /\ pc # "aborted"
  /\ tstate[g] = "running"
  /\ closure[g].kind = "owned" \/ touched[g]
  /\ tstate' = [tstate EXCEPT ![g] = "finished"]
  /\ UNCHANGED <<gvars, touched, box, joins, dvars, ret, acc, cvars, blamed>>

\* The closure panics, before or after it used the variable.
ThreadPanic(g) ==
  /\ pc # "aborted"
  /\ tstate[g] = "running"
  /\ tstate' = [tstate EXCEPT ![g] = "panicked"]
  /\ UNCHANGED <<gvars, touched, box, joins, dvars, ret, acc, cvars, blamed>>

Next ==
  \/ \E c \in Closures, ok \in BOOLEAN : Scoped(c, ok)
  \/ \E g \in Guards : JoinCall(g)
  \/ JoinWake
  \/ \E g \in Guards : ScopeEnd(g)
  \/ DropWake
  \/ \E g \in Guards : Detach(g)
  \/ \E g \in Guards : Leak(g)
  \/ \E g \in Guards : CallThread(g)
  \/ CallerPanic
  \/ \E g \in Guards : CallerRead(g)
  \/ \E g \in Guards : CallerFree(g)
  \/ \E g \in Guards : ThreadStart(g)
  \/ \E g \in Guards : ThreadTouch(g)
  \/ \E g \in Guards : ThreadFinish(g)
  \/ \E g \in Guards : ThreadPanic(g)

Spec == Init /\ [][Next]_vars

\* The OS wakes a caller blocked in JoinHandle::join() once the thread it
\* waits for has terminated.  Nothing makes a closure terminate, so the steps
\* of the spawned threads carry no fairness.
FairSpec == Spec /\ WF_vars(JoinWake) /\ WF_vars(DropWake)

Borrows(g) == closure[g].kind \in {"shared", "mut"}

Running(g) == tstate[g] \in {"spawned", "running"}

\* C1: unless its guard was leaked, the thread of a borrowing (bounded
\* lifetime) guard runs only while the guard exists; once join or the
\* destructor has ended the guard, and whenever the caller can free the
\* borrowed variable, the thread has terminated, and it never uses the
\* variable after it was freed.
C1_ThreadEndsBeforeGuard ==
  \A g \in Guards : (Borrows(g) /\ gstate[g] # "leaked") =>
    /\ Running(g) => gstate[g] = "alive"
    /\ gstate[g] \in {"joined", "dropped", "detached"} => tstate[g] \in Terminated
    /\ (ENABLED CallerFree(g)) => ~Running(g)
    /\ freed[g] => ~Running(g)
    /\ ~uaf[g]

\* C1 witness: the caller panicked holding a guard, its unwinding dropped the
\* guard, and the variable the closure had written was then freed.
C1_Witness ==
  \E g \in Guards :
    /\ closure[g].kind = "mut" /\ gstate[g] = "dropped" /\ joins[g] = 1
    /\ touched[g] /\ freed[g] /\ panicking /\ panicMsg = CallerPanicked

\* C2: whatever join() returns is the value the closure produced on the
\* background thread, and join() of a normally finished thread returns it.
C2_JoinReturnsValue ==
  \A g \in Guards :
    /\ ret[g] # <<>> => tstate[g] = "finished" /\ ret[g] = <<closure[g].ret>>
    /\ (gstate[g] = "joined" /\ tstate[g] = "finished") => ret[g] = <<closure[g].ret>>

\* C2 witness: join() has returned the value MaxVal of a finished closure.
C2_Witness ==
  \E g \in Guards :
    gstate[g] = "joined" /\ closure[g].ret = MaxVal /\ ret[g] = <<MaxVal>>

\* C3: once a guard was destroyed without join (the destructor ran with the
\* handle present), its thread has terminated, the handle was joined once, and
\* the write of the closure is what the variable holds and what the caller reads.
C3_DropJoins ==
  \A g \in Guards : gstate[g] = "dropped" =>
    /\ tstate[g] \in Terminated
    /\ joins[g] = 1
    /\ (Borrows(g) /\ tstate[g] = "finished") => touched[g]
    /\ (closure[g].kind = "mut" /\ touched[g]) =>
         /\ data[g] = closure[g].wr[1]
         /\ seen[g] \in {<<>>, closure[g].wr}

\* C3 witness: the guard of a writing closure was dropped, and the caller has
\* read the written value (not the initial one).
C3_Witness ==
  \E g \in Guards :
    /\ gstate[g] = "dropped" /\ closure[g].kind = "mut" /\ tstate[g] = "finished"
    /\ seen[g] = closure[g].wr /\ seen[g] # <<InitVal>>

\* C4: when join() ended on a thread that panicked, the caller is panicking
\* because of that thread, join() returned no value, and the handle was joined
\* exactly once (no retry).
C4_JoinPanics ==
  \A g \in Guards : (gstate[g] = "joined" /\ tstate[g] = "panicked") =>
    /\ panicking
    /\ g \in blamed
    /\ panicMsg # NoPanic
    /\ ret[g] = <<>>
    /\ joins[g] = 1

\* C4 witness: join() has ended on a panicked thread.
C4_Witness ==
  \E g \in Guards : gstate[g] = "joined" /\ tstate[g] = "panicked" /\ op = "none"

\* C5: when the destructor ended a guard whose thread panicked, the caller is
\* panicking because of that thread, with the panic raised by the destructor,
\* and the destructor had joined the thread.
C5_DropPanics ==
  \A g \in Guards : (gstate[g] = "dropped" /\ tstate[g] = "panicked") =>
    /\ panicking
    /\ g \in blamed
    /\ panicMsg \notin {NoPanic, CallerPanicked, SpawnFailed}
    /\ joins[g] = 1

\* C5 witness: a guard was dropped, not while unwinding, on a panicked thread.
C5_Witness ==
  \E g \in Guards :
    gstate[g] = "dropped" /\ tstate[g] = "panicked" /\ pc = "run" /\ g \in blamed

\* C6: a panic that join() or the destructor raised for a panicked thread
\* carries the message "child thread <thread> panicked" naming that thread.
C6_PanicNamesThread ==
  (panicking /\ blamed # {}) =>
    /\ panicMsg.text = "child thread panicked"
    /\ panicMsg.thread \in blamed

\* C7: detach() never waits: it is enabled whatever the thread is doing, the
\* caller is never blocked inside it, and the thread of a detached guard is
\* never joined nor waited for, by the guard's destruction or otherwise.
C7_DetachNeverWaits ==
  /\ op # "detach"
  /\ \A g \in Guards :
       /\ (pc = "run" /\ ~panicking /\ gstate[g] = "alive"
             /\ Lifetime(closure[g]) = "static") => ENABLED Detach(g)
       /\ gstate[g] = "detached" => (joins[g] = 0 /\ inner[g] = <<>> /\ cur # g)

\* C7 witness: a guard is detached, its thread still runs and the caller runs.
C7_Witness ==
  \E g \in Guards :
    gstate[g] = "detached" /\ tstate[g] = "running" /\ pc = "run" /\ ~panicking

\* C8: the panic of a detached thread is never raised in the caller, and the
\* detached thread is free to go on until it terminated.
C8_DetachedPanicStays ==
  \A g \in Guards : gstate[g] = "detached" =>
    /\ g \notin blamed
    /\ ret[g] = <<>>
    /\ (tstate[g] = "spawned" /\ pc # "aborted") => ENABLED ThreadStart(g)
    /\ (tstate[g] = "running" /\ pc # "aborted") =>
         (ENABLED ThreadFinish(g) /\ ENABLED ThreadPanic(g))

\* C8 witness: a detached thread has panicked and the caller is not panicking.
C8_Witness ==
  \E g \in Guards :
    gstate[g] = "detached" /\ tstate[g] = "panicked" /\ ~panicking /\ pc = "run"

\* C9: detach is never possible on a guard whose closure borrows: such a guard
\* is never detached, so once its handle is gone it was ended by join or by
\* the destructor.
C9_DetachOnlyStatic ==
  \A g \in Guards : Lifetime(closure[g]) = "scoped" =>
    /\ ~ENABLED Detach(g)
    /\ gstate[g] # "detached"
    /\ (gstate[g] \notin {"unborn", "nospawn", "alive", "leaked"})
         => gstate[g] \in {"joined", "dropped"}

\* C9 witness: the caller runs holding a borrowing guard whose thread runs.
C9_Witness ==
  \E g \in Guards :
    /\ Borrows(g) /\ gstate[g] = "alive" /\ tstate[g] = "running"
    /\ pc = "run" /\ ~panicking

\* C10 as stated: while a guard is alive the caller can neither read nor
\* write (free) the variable its closure borrows.
C10_NoAccessWhileAlive ==
  \A g \in Guards : (Borrows(g) /\ gstate[g] = "alive") =>
    (~ENABLED CallerRead(g) /\ ~ENABLED CallerFree(g))

\* C10 amended: while a guard is alive the caller cannot write (free) the
\* variable its closure borrows, and cannot read it when the closure borrows
\* it mutably; a variable borrowed shared can be read.
C10_ExclusiveWhileAlive ==
  \A g \in Guards : (Borrows(g) /\ gstate[g] = "alive") =>
    /\ ~ENABLED CallerFree(g)
    /\ ~freed[g]
    /\ closure[g].kind = "mut" => (~ENABLED CallerRead(g) /\ seen[g] = <<>>)

\* C10 witness: the caller runs while a guard with a mutable borrow is alive
\* and its thread has written the variable.
C10_Witness ==
  \E g \in Guards :
    /\ closure[g].kind = "mut" /\ gstate[g] = "alive" /\ touched[g]
    /\ pc = "run" /\ ~panicking

\* C11: when the OS cannot create the thread, scoped() panics at the call:
\* no guard (no handle) is returned, no thread exists for the call, the
\* closure is never run and nothing is ever joined for it (no retry).
C11_SpawnFailurePanics ==
  \A g \in Guards : gstate[g] = "nospawn" =>
    /\ panicking
    /\ panicMsg # NoPanic
    /\ inner[g] = <<>>
    /\ tstate[g] = "none"
    /\ ~touched[g]
    /\ data[g] = InitVal
    /\ joins[g] = 0
    /\ ret[g] = <<>>

\* C11 witness: a scoped() call has failed and the caller unwinds with the
\* panic of the failed spawn.
C11_Witness ==
  \E g \in Guards :
    gstate[g] = "nospawn" /\ closure[g].kind = "mut" /\ panicMsg = SpawnFailed

\* A step in which the caller's thread() call returned.
ThreadReturned == \E g \in Guards : CallThread(g) /\ ~panicking'

\* A step in which join() or drop() found its thread panicked and evaluated
\* self.thread() for the panic message, after the handle was taken.
ThreadAfterTake ==
  /\ pc \in {"join", "drop"} /\ pc' \notin {"join", "drop"}
  /\ tstate[cur] = "panicked"
  /\ inner[cur] = <<>>

\* C12: thread() on a guard that holds its handle returns the thread the guard
\* was created for and changes neither the handle nor the thread nor anything
\* else of the guard; evaluated when the handle has been cleared it fails
\* (the panic of unwrap) instead of returning a thread.
C12_ThreadAccessor ==
  [][ /\ ThreadReturned =>
           /\ \E g \in Guards :
                /\ gstate[g] = "alive" /\ inner[g] = <<g>> /\ acc' = <<g>>
                /\ closure[g] # NoClosure /\ tstate[g] # "none"
           /\ UNCHANGED <<gvars, tvars, joins, dvars, ret, cvars, blamed>>
      /\ ThreadAfterTake => (panicking' /\ panicMsg' = UnwrapNone)
    ]_vars

\* C12 witness: thread() has returned the thread of a guard that is still
\* alive, holds its handle, and whose thread is running.
C12_Witness ==
  \E g \in Guards :
    /\ acc = <<g>> /\ gstate[g] = "alive" /\ inner[g] = <<g>>
    /\ tstate[g] = "running" /\ pc = "run" /\ ~panicking

\* The handle of guard g is present.
HasHandle(g) == inner[g] # <<>>

\* No join(), detach() or destructor has begun on the existing guard g.
Untouched(g) == gstate[g] \in {"alive", "leaked"} /\ cur # g

\* C13: in every state the handle of a guard is present exactly when the
\* guard was created and no join, detach or destructor has taken the handle
\* (a leaked guard keeps it for ever); a present handle is the one of the
\* guard's own thread, and it is cleared only by a step of join(), of detach()
\* or of the destructor.
C13_HandleIffUnjoined ==
  /\ [](\A g \in Guards :
          /\ HasHandle(g) <=> Untouched(g)
          /\ HasHandle(g) => inner[g] = <<g>> /\ joins[g] = 0)
  /\ [][\A g \in Guards :
          (HasHandle(g) /\ ~HasHandle(g)') =>
             \/ JoinCall(g)
             \/ ScopeEnd(g)
             \/ Detach(g)]_vars

\* C13 witness: one guard was created and joined: the joined guard has no handle.
C13_Witness ==
  \E g \in Guards :
    gstate[g] = "joined" /\ ~HasHandle(g) /\ joins[g] = 1 /\ tstate[g] = "finished"

\* C14: the handle of a guard is joined at most once.  join() clears the
\* handle before it waits, so the destructor that runs when join() returns or
\* unwinds finds no handle: the caller never waits in a destructor inside
\* join(), a guard ended by join() was joined exactly once, and a join() that
\* failed because its thread panicked does not fail a second time (the
\* process is aborted only by a destructor that ran during another unwinding).
C14_JoinedAtMostOnce ==
  /\ ~(pc = "drop" /\ op = "join")
  /\ \A g \in Guards :
       /\ joins[g] <= 1
       /\ (pc = "join" /\ cur = g) => (inner[g] = <<>> /\ joins[g] = 0)
       /\ gstate[g] = "joined" => (joins[g] = 1 /\ inner[g] = <<>>)
  /\ \A g \in blamed : gstate[g] = "joined" => pc # "aborted" \/ blamed # {g}
  /\ pc = "aborted" => \E g \in blamed : gstate[g] = "dropped"

\* C14 witness: join() failed on a panicked thread and the destructor of the
\* consumed guard then ran without a second join or a second failure.
C14_Witness ==
  \E g \in Guards :
    /\ gstate[g] = "joined" /\ tstate[g] = "panicked" /\ joins[g] = 1
    /\ panicking /\ pc = "run" /\ blamed = {g}

\* A step in which the caller's join() returns or fails.
JoinEnds == pc = "join" /\ pc' # "join"

\* C15: join() neither returns nor fails while its thread is running: the
\* step that ends join() is taken with the thread already terminated (and
\* does not itself change the thread), so a result the caller holds, and a
\* failure raised for a thread, are those of a terminated thread.
C15_JoinAfterTermination ==
  /\ [][JoinEnds =>
          /\ tstate[cur] \in Terminated
          /\ tstate' = tstate
          /\ gstate'[cur] = "joined"]_vars
  /\ [](\A g \in Guards :
          /\ gstate[g] = "joined" => tstate[g] \in Terminated
          /\ ret[g] # <<>> => tstate[g] = "finished"
          /\ g \in blamed => tstate[g] = "panicked")

\* C15 witness: the caller is blocked inside join() while the thread is
\* still running the closure.
C15_Witness ==
  pc = "join" /\ op = "join" /\ tstate[cur] = "running" /\ gstate[cur] = "alive"

\* The caller is blocked waiting for a thread, inside join() or a destructor.
Blocked == pc \in {"join", "drop"}

\* C16: no cancellation, no timeout.  Once the thread a pending join() or
\* destructor waits for has terminated (normally or by panic), the join() or
\* destructor completes; it completes by no other step than one taken with
\* the thread terminated, so it never completes while the closure keeps
\* running; and a thread that still runs with no guard holding or awaiting
\* its handle is a detached one.
C16_NoCancellation ==
  /\ (Blocked /\ tstate[cur] \in Terminated) ~> ~Blocked
  /\ [][(Blocked /\ ~Blocked') => tstate[cur] \in Terminated]_vars
  /\ [](\A g \in Guards :
          /\ (Running(g) /\ ~HasHandle(g) /\ cur # g) => gstate[g] = "detached"
          /\ gstate[g] \in {"joined", "dropped"} => tstate[g] \in Terminated)

\* C16 witness: a destructor is pending on a thread that has just panicked.
C16_Witness ==
  pc = "drop" /\ op = "drop" /\ tstate[cur] = "panicked" /\ joins[cur] = 0

\* C17: the guarantee fails only, and does fail, for a leaked guard: a thread
\* that runs while the caller has freed or can free the variable it borrows,
\* and a closure that used the variable after it was freed, belong to a
\* borrowing guard that was leaked with its handle never joined (the witness
\* is the reachable state in which that has happened).
C17_UnsafeOnlyWhenLeaked ==
  \A g \in Guards :
    (uaf[g] \/ (Running(g) /\ (freed[g] \/ ENABLED CallerFree(g)))) =>
      /\ gstate[g] = "leaked"
      /\ Borrows(g)
      /\ HasHandle(g)
      /\ joins[g] = 0

\* C17 witness: a borrowing guard was leaked, the caller freed the variable,
\* and the thread, still running, has then used the freed variable.
C17_Witness ==
  \E g \in Guards :
    /\ gstate[g] = "leaked" /\ closure[g].kind = "mut"
    /\ freed[g] /\ uaf[g] /\ tstate[g] = "running"

\* C18: every successful scoped() call has exactly one thread and one guard
\* (a thread exists for a call exactly when its guard was created), the
\* closure's box is handed over as a raw pointer, and the closure is invoked
\* once, by the step that starts its thread: no step of the caller touches
\* the box after scoped(), and a called box is never called or changed again.
C18_OneThreadOneCall ==
  /\ [](\A g \in Guards :
          /\ tstate[g] # "none" <=> gstate[g] \notin {"unborn", "nospawn"}
          /\ box[g] = "none" <=> gstate[g] = "unborn"
          /\ box[g] = "raw" <=> (tstate[g] = "spawned" \/ gstate[g] = "nospawn")
          /\ box[g] = "called" <=> tstate[g] \in {"running"} \cup Terminated)
  /\ [][\A g \in Guards :
          box'[g] # box[g] =>
            \/ box[g] = "none" /\ box'[g] = "raw" /\ gstate[g] = "unborn"
            \/ box[g] = "raw" /\ box'[g] = "called" /\ ThreadStart(g)]_vars

\* C18 witness: the guard of a call is held by the caller and the thread of
\* that call has invoked the closure and finished it.
C18_Witness ==
  \E g \in Guards :
    /\ gstate[g] = "alive" /\ HasHandle(g) /\ box[g] = "called"
    /\ tstate[g] = "finished" /\ touched[g]

\* C19: scoped() does not wait for the closure.  The step that creates a
\* guard returns it to a running caller with the handle present while the
\* thread has not begun the closure, and a guard the caller holds has its
\* handle whatever its thread is doing (the witness is the reachable state in
\* which the caller uses the guard before the thread has started).
C19_LaunchDoesNotWait ==
  /\ [][\A g \in Guards :
          (gstate[g] = "unborn" /\ gstate'[g] = "alive") =>
            /\ inner'[g] = <<g>>
            /\ pc' = "run" /\ ~panicking'
            /\ tstate'[g] = "spawned" /\ box'[g] = "raw"
            /\ \A h \in Guards \ {g} : tstate'[h] = tstate[h]]_vars
  /\ [](\A g \in Guards :
          (gstate[g] = "alive" /\ cur # g) =>
             (HasHandle(g) /\ tstate[g] \in {"spawned", "running"} \cup Terminated))

\* C19 witness: the caller holds the guard and has called thread() on it
\* while the spawned thread has not started the closure.
C19_Witness ==
  \E g \in Guards :
    /\ gstate[g] = "alive" /\ HasHandle(g) /\ acc = <<g>>
    /\ tstate[g] = "spawned" /\ box[g] = "raw" /\ pc = "run" /\ ~panicking

====
